---- MODULE Spec2Model ----
(***************************************************************************)
(* Sales Order Processing API (backend/main.py, backend/models.py).        *)
(*                                                                         *)
(* The model covers the field normalizer (transform_extracted_item), the   *)
(* upload workflow (upload_pdf) as a sequence of steps between its await   *)
(* points, and the order endpoints (get_order, update_match,               *)
(* update_line_item, export_order) over the two tables of models.py.       *)
(*                                                                         *)
(* Numbers: quantities are integers; prices (Python floats) are kept as    *)
(* integer hundredths, so 0.20 is 20 and quantity * unit_price stays in    *)
(* hundredths.                                                             *)
(***************************************************************************)
EXTENDS Integers, Sequences, FiniteSets, TLC

VARIABLES
    now,        \* datetime.now() truncated to seconds (main.py:132)
    fs,         \* names of the files that exist in UPLOAD_DIR
    orders,     \* table sales_orders: sequence, id = index
    lineItems,  \* table line_items: sequence, id = index
    pc,         \* per request slot: position inside upload_pdf
    run,        \* per request slot: upload_pdf's local variables
    started,    \* number of upload_pdf requests accepted so far
    resp,       \* what the step just taken returned to its caller
    row,        \* normalizer harness: the extracted row
    norm        \* normalizer harness: transform_extracted_item(row)

vars == <<now, fs, orders, lineItems, pc, run, started, resp, row, norm>>

(***************************************************************************)
(* Python values as they arrive in the extraction service's JSON.          *)
(***************************************************************************)
None == [t |-> "null", v |-> 0]
PyInt(n) == [t |-> "int", v |-> n]
PyStr(s) == [t |-> "str", v |-> s]
\* a finite float, in hundredths
PyFloat(h) == [t |-> "float", v |-> h]
\* the float Infinity, which json.loads accepts
PyInf == [t |-> "inf", v |-> 0]

\* Outcome of a conversion: the value, or the exception raised.
Ok(n) == [exc |-> "none", v |-> n]
Raise(e) == [exc |-> e, v |-> 0]

\* int(str): the integer literals among the strings the model uses.
ParseInt(s) ==
    CASE s = "5" -> Ok(5)
      [] s = "3" -> Ok(3)
      [] s = "0" -> Ok(0)
      [] OTHER -> Raise("ValueError")

\* float(str): the decimal literals among the strings the model uses.
ParseFloat(s) ==
    CASE s = "5" -> Ok(500)
      [] s = "3" -> Ok(300)
      [] s = "0" -> Ok(0)
      [] s = "5.0" -> Ok(500)
      [] s = "0.20" -> Ok(20)
      [] s = "1.50" -> Ok(150)
      [] OTHER -> Raise("ValueError")

\* Python's int(x): floats truncate toward zero.
int(x) ==
    CASE x.t = "int" -> Ok(x.v)
      [] x.t = "float" -> Ok(IF x.v >= 0 THEN x.v \div 100 ELSE -((-x.v) \div 100))
      [] x.t = "inf" -> Raise("OverflowError")
      [] x.t = "str" -> ParseInt(x.v)
      [] OTHER -> Raise("TypeError")

\* Python's float(x), for finite inputs.
float(x) ==
    CASE x.t = "int" -> Ok(x.v * 100)
      [] x.t = "float" -> Ok(x.v)
      [] x.t = "str" -> ParseFloat(x.v)
      [] OTHER -> Raise("TypeError")

(***************************************************************************)
(* Field normalizer.                                                       *)
(***************************************************************************)
COLUMN_MAPPINGS ==
    [description |-> <<"Request Item", "Item Description", "Description",
                       "Product", "Part Description">>,
     quantity    |-> <<"Quantity", "Amount", "Qty", "Order Qty">>,
     unit_price  |-> <<"Unit Price", "Price", "Unit Cost", "Price/Unit">>,
     total_price |-> <<"Total", "Total Price", "Extended Price", "Line Total">>]

\* find_matching_column's None
NoColumn == "<None>"

find_matching_column(item, column_type) ==
    LET possible_names == COLUMN_MAPPINGS[column_type]
        hits == {i \in 1..Len(possible_names) : possible_names[i] \in DOMAIN item}
    IN  IF hits = {} THEN NoColumn
        ELSE possible_names[CHOOSE i \in hits : \A j \in hits : i <= j]

NoItem == [description |-> None, quantity |-> 0, unit_price |-> 0, total_price |-> 0]
Transformed(item) == [exc |-> "none", item |-> item]
TransformRaises(e) == [exc |-> e, item |-> NoItem]

\* the quantity branch with the missing alias defaulting to 0 instead of raising
transform_quantity_lenient(item) ==
    LET qty_key == find_matching_column(item, "quantity")
    IN  IF qty_key = NoColumn THEN Ok(0)
        ELSE LET q == int(item[qty_key])
             IN  IF q.exc \in {"ValueError", "TypeError"} THEN Ok(0) ELSE q

\* main.py:94-101: the quantity, or the exception that leaves the function
transform_quantity(item) ==
    LET qty_key == find_matching_column(item, "quantity")
    IN  IF qty_key = NoColumn THEN Raise("ValueError")
        ELSE LET q == int(item[qty_key])
             IN  IF q.exc \in {"ValueError", "TypeError"} THEN Ok(0) ELSE q

\* main.py:103-111
transform_unit_price(item) ==
    LET price_key == find_matching_column(item, "unit_price")
    IN  IF price_key # NoColumn /\ item[price_key] # None
        THEN LET f == float(item[price_key])
             IN  IF f.exc \in {"ValueError", "TypeError"} THEN 0 ELSE f.v
        ELSE 0

\* main.py:113-121
transform_total_price(item, quantity, unit_price) ==
    LET total_key == find_matching_column(item, "total_price")
    IN  IF total_key # NoColumn /\ item[total_key] # None
        THEN LET f == float(item[total_key])
             IN  IF f.exc \in {"ValueError", "TypeError"}
                 THEN quantity * unit_price ELSE f.v
        ELSE quantity * unit_price

transform_extracted_item(item) ==
    LET desc_key == find_matching_column(item, "description")
        qty == transform_quantity(item)
    IN  IF desc_key = NoColumn THEN TransformRaises("ValueError")
        ELSE IF qty.exc # "none" THEN TransformRaises(qty.exc)
        ELSE LET unit_price == transform_unit_price(item)
             IN  Transformed([description |-> item[desc_key],
                              quantity    |-> qty.v,
                              unit_price  |-> unit_price,
                              total_price |-> transform_total_price(item, qty.v, unit_price)])

(***************************************************************************)
(* Bounds and the inputs the environment may supply.                       *)
(***************************************************************************)
\* upload_pdf requests accepted over a run of the service
MaxUploads == 2
\* seconds the clock may advance
MaxTime == 1

\* request slots: uploads that may be in flight at once
Slots == {1, 2}

UploadNames == {"order.pdf", "notes.txt"}

\* str.endswith('.pdf') on the names the model uploads
EndsWithPdf(name) ==
    CASE name = "order.pdf" -> TRUE
      [] name = "quote.pdf" -> TRUE
      [] name = "notes.txt" -> FALSE
      [] OTHER -> FALSE

RowBolt == ("Item Description" :> PyStr("Bolt M6")) @@ ("Qty" :> PyStr("5"))
               @@ ("Price/Unit" :> PyStr("0.20"))
RowNut == ("Description" :> PyStr("Nut M6")) @@ ("Quantity" :> PyInt(3))
               @@ ("Price" :> PyStr("n/a"))
RowNoQty == ("Description" :> PyStr("Nut M6")) @@ ("Price" :> PyStr("1.50"))
RowNoDesc == ("SKU" :> PyStr("X-1")) @@ ("Qty" :> PyInt(3))
RowInfQty == ("Description" :> PyStr("Bolt M6")) @@ ("Qty" :> PyInf)

\* bodies the extraction service may answer with (status 200)
ExtractionBodies ==
    { <<>>, <<RowNoQty>>, <<RowNoDesc, RowBolt, RowNut>>, <<RowBolt, RowInfQty>> }

ExtractionStatuses == {200, 502}
MatchingStatuses == {200, 503}

CandHex == ("match" :> PyStr("Hex Bolt M6")) @@ ("score" :> PyFloat(91))
CandCap == ("match" :> PyStr("Cap Bolt M6")) @@ ("score" :> PyFloat(50))
CandBare == ("score" :> PyFloat(10))

\* bodies the matching service may answer with (status 200)
MatchingBodies ==
    { ("results" :> (("Bolt M6" :> <<CandCap, CandHex>>) @@ ("Nut M6" :> <<>>))),
      ("results" :> ("Nut M6" :> <<CandBare>>)) }

\* the catalog file as a request finds it: unreadable, or its rows' derived
\* names and descriptions
CatalogUnreadable == [readable |-> FALSE, rows |-> <<>>]
CatalogWithCap ==
    [readable |-> TRUE, rows |-> <<[name |-> "Cap Bolt M6", description |-> "M6 cap bolt"]>>]
CatalogFiles == {CatalogUnreadable, CatalogWithCap}

\* catalog ids a reviewer may confirm
CatalogItemIds == {"Hex_Bolt_M6"}

\* bodies of PUT /orders/{id}/line-items/{id}, after validation as LineItemBase
LineItemBodies ==
    { [description |-> "Bolt M8", quantity |-> 7, unit_price |-> 30, total_price |-> 210] }

(***************************************************************************)
(* Tables (models.py).                                                     *)
(***************************************************************************)
SalesOrder(filename, original_filename, status) ==
    [filename |-> filename, original_filename |-> original_filename, status |-> status]

LineItem(sales_order_id, item, catalog_match_id, catalog_match_data, confidence_score, status) ==
    [sales_order_id |-> sales_order_id, description |-> item.description,
     quantity |-> item.quantity, unit_price |-> item.unit_price,
     total_price |-> item.total_price,
     catalog_match_id |-> catalog_match_id, catalog_match_data |-> catalog_match_data,
     confidence_score |-> confidence_score, status |-> status]

\* a JSON object stored in catalog_match_data
PyDict(id, name, description) ==
    [t |-> "dict", v |-> [id |-> id, name |-> name, description |-> description]]

\* Python truthiness of a value
Truthy(x) ==
    CASE x.t = "null" -> FALSE
      [] x.t = "str" -> x.v # ""
      [] x.t = "int" -> x.v # 0
      [] x.t = "float" -> x.v # 0
      [] OTHER -> TRUE

\* ids of the line items with the given parent, in id order
LineItemIdsOf(items, order_id) ==
    {i \in 1..Len(items) : items[i].sales_order_id = order_id}

RECURSIVE SortedIds(_)
SortedIds(S) ==
    IF S = {} THEN <<>>
    ELSE LET m == CHOOSE i \in S : \A j \in S : i <= j
         IN  <<m>> \o SortedIds(S \ {m})

(***************************************************************************)
(* Initial state: empty tables, empty upload directory, nothing in flight. *)
(***************************************************************************)
NoFile == <<0, "">>
NoRun == [unique_filename |-> NoFile, original_filename |-> "",
          transformed_items |-> <<>>, order_id |-> 0]
NoResp == [op |-> "none"]
NotRun == [exc |-> "not run", item |-> NoItem]

Init ==
    /\ now = 0
    /\ fs = {}
    /\ orders = <<>>
    /\ lineItems = <<>>
    /\ pc = [s \in Slots |-> "idle"]
    /\ run = [s \in Slots |-> NoRun]
    /\ started = 0
    /\ resp = NoResp
    /\ row = RowBolt
    /\ norm = NotRun

\* the clock advances by a second
Tick ==
    /\ now < MaxTime
    /\ now' = now + 1
    /\ resp' = NoResp
    /\ UNCHANGED <<fs, orders, lineItems, pc, run, started, row, norm>>

(***************************************************************************)
(* upload_pdf, one action per stretch between two await points.            *)
(***************************************************************************)
\* what upload_pdf returns or raises: HTTP status, detail, order id (0: none)
\* and, of "matched_items", each entry's catalog_match and confidence
Outcome(code, detail, id) ==
    [code |-> code, detail |-> detail, id |-> id, matched_items |-> <<>>]

\* f"{timestamp}_{original_filename}": the timestamp has a fixed width, so the
\* pair determines the string and the string the pair
UniqueFilename(timestamp, original_filename) == <<timestamp, original_filename>>

\* the finally block that skips the deletion after a failed request
FinallyOnlyOnSuccess(s, outcome, unlink_raises) ==
    LET file_path == run[s].unique_filename
    IN  /\ fs' = IF outcome.code = 200 THEN fs \ {file_path} ELSE fs
        /\ resp' = [op |-> "upload", code |-> outcome.code, detail |-> outcome.detail,
                    id |-> outcome.id, matched_items |-> outcome.matched_items,
                    filename |-> file_path, unlink_raised |-> FALSE]
        /\ pc' = [pc EXCEPT ![s] = "idle"]
        /\ run' = [run EXCEPT ![s] = NoRun]

\* main.py:288-294: delete the stored file if it exists; a failing os.unlink
\* is printed and the request's own outcome stands
Finally(s, outcome, unlink_raises) ==
    LET file_path == run[s].unique_filename
        exists == file_path \in fs
    IN  /\ fs' = IF exists /\ ~unlink_raises THEN fs \ {file_path} ELSE fs
        /\ resp' = [op |-> "upload", code |-> outcome.code, detail |-> outcome.detail,
                    id |-> outcome.id, matched_items |-> outcome.matched_items,
                    filename |-> file_path,
                    unlink_raised |-> exists /\ unlink_raises]
        /\ pc' = [pc EXCEPT ![s] = "idle"]
        /\ run' = [run EXCEPT ![s] = NoRun]

\* main.py:128-139: reject a non-PDF name, else pick the stored name and
\* open it for writing (which creates it); suspended in `await file.read()`
UploadBegin(s, filename) ==
    /\ pc[s] = "idle"
    /\ IF ~EndsWithPdf(filename)
       THEN /\ resp' = [op |-> "upload", code |-> 400,
                        detail |-> "Only PDF files are allowed", id |-> 0,
                        matched_items |-> <<>>,
                        filename |-> NoFile, unlink_raised |-> FALSE]
            /\ UNCHANGED <<fs, pc, run, started>>
       ELSE /\ started' = started + 1
            /\ run' = [run EXCEPT ![s] =
                          [unique_filename |-> UniqueFilename(now, filename),
                           original_filename |-> filename,
                           transformed_items |-> <<>>, order_id |-> 0]]
            /\ fs' = fs \cup {UniqueFilename(now, filename)}
            /\ pc' = [pc EXCEPT ![s] = "writing"]
            /\ resp' = NoResp
    /\ UNCHANGED <<now, orders, lineItems, row, norm>>

\* main.py:140-150: write and close the file, then reopen it for reading and
\* send it to the extraction service; open() raises if the path is gone
UploadStored(s, unlink_raises) ==
    /\ pc[s] = "writing"
    /\ IF run[s].unique_filename \in fs
       THEN /\ pc' = [pc EXCEPT ![s] = "extracting"]
            /\ resp' = NoResp
            /\ UNCHANGED <<fs, run>>
       ELSE Finally(s, Outcome(500, "FileNotFoundError", 0), unlink_raises)
    /\ UNCHANGED <<now, orders, lineItems, started, row, norm>>

\* every collaborator failure reported as a plain server error
StatusAlways500(status_code) == 500

\* main.py:154 and 286: HTTPException(status_code=<the collaborator's status>)
UpstreamStatus(status_code) == status_code

\* main.py:160-168: the loop over the extracted rows; ValueError skips the
\* row, any other exception leaves the loop and the handler
RECURSIVE transform_items(_)
transform_items(extracted_items) ==
    IF extracted_items = <<>> THEN [exc |-> "none", items |-> <<>>]
    ELSE LET t == transform_extracted_item(Head(extracted_items))
             rest == transform_items(Tail(extracted_items))
         IN  IF t.exc = "ValueError" THEN rest
             ELSE IF t.exc # "none" THEN [exc |-> t.exc, items |-> <<>>]
             ELSE IF rest.exc # "none" THEN rest
             ELSE [exc |-> "none", items |-> <<t.item>> \o rest.items]

\* models.py:12: filename is unique; the insert's commit raises IntegrityError
FilenameTaken(table, filename) ==
    \E i \in 1..Len(table) : table[i].filename = filename

\* the order written only once matching has answered
CreateOrderDeferred(s, transformed_items) ==
    /\ orders' = orders
    /\ run' = [run EXCEPT ![s].transformed_items = transformed_items,
                          ![s].order_id = Len(orders) + 1]

\* main.py:173-181: add, commit and refresh the order before matching
CreateOrder(s, transformed_items) ==
    /\ orders' = Append(orders, SalesOrder(run[s].unique_filename,
                                           run[s].original_filename, "pending"))
    /\ run' = [run EXCEPT ![s].transformed_items = transformed_items,
                          ![s].order_id = Len(orders) + 1]

\* main.py:151-193: the extraction service has answered
ExtractionResponse(s, status_code, body, unlink_raises) ==
    /\ pc[s] = "extracting"
    /\ LET t == transform_items(body)
       IN  IF status_code # 200
           THEN /\ Finally(s, Outcome(UpstreamStatus(status_code), "PDF extraction failed", 0),
                        unlink_raises)
                /\ UNCHANGED orders
           ELSE IF t.exc # "none"
           THEN /\ Finally(s, Outcome(500, t.exc, 0), unlink_raises)
                /\ UNCHANGED orders
           ELSE IF t.items = <<>>
           THEN /\ Finally(s, Outcome(400, "No valid items could be extracted from the PDF", 0),
                           unlink_raises)
                /\ UNCHANGED orders
           ELSE IF FilenameTaken(orders, run[s].unique_filename)
           THEN /\ Finally(s, Outcome(500, "IntegrityError", 0), unlink_raises)
                /\ UNCHANGED orders
           ELSE /\ CreateOrder(s, t.items)
                /\ pc' = [pc EXCEPT ![s] = "matching"]
                /\ resp' = NoResp
                /\ UNCHANGED fs
    /\ UNCHANGED <<now, lineItems, started, row, norm>>

\* dict.get(key, default) on a JSON object
Get(d, key, default) == IF key \in DOMAIN d THEN d[key] ELSE default

\* main.py:205: batch_matches.get("results", {}).get(description, [])
MatchesFor(batch_matches, description) ==
    LET results == Get(batch_matches, "results", <<>>)
    IN  IF description.t = "str" /\ description.v \in DOMAIN results
        THEN results[description.v] ELSE <<>>

\* the candidate with the highest score instead of the first one
BestOfLast(matches) == matches[Len(matches)]

\* main.py:209: best_match = matches[0]
BestOf(matches) == matches[1]

\* main.py:203-267: the line item persisted for one transformed row
MatchedLineItem(item, batch_matches, order_id) ==
    LET matches == MatchesFor(batch_matches, item.description)
    IN  IF Len(matches) > 0
        THEN LET best_match == BestOf(matches)
                 confidence == float(Get(best_match, "score", PyInt(0))).v
                 catalog_match == Get(best_match, "match", None)
             IN  LineItem(order_id, item, catalog_match,
                          IF Truthy(catalog_match)
                          THEN PyDict(catalog_match, catalog_match, catalog_match)
                          ELSE None,
                          confidence, "pending")
        ELSE LineItem(order_id, item, None, None, 0, "pending")

\* main.py:214-229: look the matched name up in the catalog file; any
\* exception (file missing, column missing) is printed and leaves None
FindCatalogItem(catalog, catalog_match) ==
    IF ~catalog.readable THEN None
    ELSE LET hits == SelectSeq(catalog.rows, LAMBDA r : PyStr(r.name) = catalog_match)
         IN  IF hits = <<>> THEN None
             ELSE PyDict(catalog_match, PyStr(hits[1].name), PyStr(hits[1].description))

\* main.py:249-253 and 269-273: the entry of "matched_items" for one row
MatchedItem(item, batch_matches, catalog) ==
    LET matches == MatchesFor(batch_matches, item.description)
    IN  IF Len(matches) > 0
        THEN [catalog_match |-> FindCatalogItem(catalog, Get(BestOf(matches), "match", None)),
              confidence |-> float(Get(BestOf(matches), "score", PyInt(0))).v]
        ELSE [catalog_match |-> None, confidence |-> 0]

\* main.py:194-286: the matching service has answered
MatchingResponse(s, status_code, batch_matches, catalog, unlink_raises) ==
    /\ pc[s] = "matching"
    /\ LET items == run[s].transformed_items
           order_id == run[s].order_id
       IN  IF status_code = 200
           THEN /\ lineItems' = lineItems \o
                      [i \in 1..Len(items) |-> MatchedLineItem(items[i], batch_matches, order_id)]
                /\ Finally(s, [Outcome(200, "ok", order_id) EXCEPT !.matched_items =
                                  [i \in 1..Len(items) |->
                                      MatchedItem(items[i], batch_matches, catalog)]],
                           unlink_raises)
           ELSE /\ Finally(s, Outcome(UpstreamStatus(status_code), "Batch matching failed", 0),
                           unlink_raises)
                /\ UNCHANGED lineItems
    /\ UNCHANGED <<now, orders, started, row, norm>>

(***************************************************************************)
(* Order endpoints.                                                        *)
(***************************************************************************)
\* db.query(SalesOrder).filter(SalesOrder.id == order_id).first() is not None
OrderExists(table, order_id) == order_id \in 1..Len(table)

\* the line item looked up by id alone
FindLineItemAnyOrder(items, order_id, line_item_id) ==
    line_item_id \in 1..Len(items)

\* main.py:320-323 and 422-425: filter on id and on sales_order_id, first()
FindLineItem(items, order_id, line_item_id) ==
    /\ line_item_id \in 1..Len(items)
    /\ items[line_item_id].sales_order_id = order_id

\* main.py:307 and 342: the order's line items, each with its id
LineItemsOf(items, order_id) ==
    LET ids == SortedIds(LineItemIdsOf(items, order_id))
    IN  [k \in 1..Len(ids) |-> [id |-> ids[k], item |-> items[ids[k]]]]

\* main.py:301-311 as a function of the tables
get_order(table, items, order_id) ==
    IF ~OrderExists(table, order_id)
    THEN [op |-> "get_order", code |-> 404]
    ELSE [op |-> "get_order", code |-> 200,
          order |-> table[order_id], line_items |-> LineItemsOf(items, order_id)]

GetOrder(order_id) ==
    /\ resp' = get_order(orders, lineItems, order_id)
    /\ UNCHANGED <<now, fs, orders, lineItems, pc, run, started, row, norm>>

\* main.py:313-333
UpdateMatch(order_id, line_item_id, catalog_item_id) ==
    /\ IF ~FindLineItem(lineItems, order_id, line_item_id)
       THEN /\ resp' = [op |-> "update_match", code |-> 404]
            /\ UNCHANGED lineItems
       ELSE /\ lineItems' = [lineItems EXCEPT
                                ![line_item_id].catalog_match_id = PyStr(catalog_item_id),
                                ![line_item_id].status = "verified"]
            /\ resp' = [op |-> "update_match", code |-> 200]
    /\ UNCHANGED <<now, fs, orders, pc, run, started, row, norm>>

\* the update that forgets total_price
UpdateLineItemNoTotal(order_id, line_item_id, line_item) ==
    /\ IF ~FindLineItem(lineItems, order_id, line_item_id)
       THEN /\ resp' = [op |-> "update_line_item", code |-> 404]
            /\ UNCHANGED lineItems
       ELSE /\ lineItems' = [lineItems EXCEPT
                                ![line_item_id].description = PyStr(line_item.description),
                                ![line_item_id].quantity = line_item.quantity,
                                ![line_item_id].unit_price = line_item.unit_price]
            /\ resp' = [op |-> "update_line_item", code |-> 200,
                        line_item |-> [id |-> line_item_id, item |-> lineItems'[line_item_id]]]
    /\ UNCHANGED <<now, fs, orders, pc, run, started, row, norm>>

\* main.py:414-437: setattr for each of LineItemBase's four fields
UpdateLineItem(order_id, line_item_id, line_item) ==
    /\ IF ~FindLineItem(lineItems, order_id, line_item_id)
       THEN /\ resp' = [op |-> "update_line_item", code |-> 404]
            /\ UNCHANGED lineItems
       ELSE /\ lineItems' = [lineItems EXCEPT
                                ![line_item_id].description = PyStr(line_item.description),
                                ![line_item_id].quantity = line_item.quantity,
                                ![line_item_id].unit_price = line_item.unit_price,
                                ![line_item_id].total_price = line_item.total_price]
            /\ resp' = [op |-> "update_line_item", code |-> 200,
                        line_item |-> [id |-> line_item_id, item |-> lineItems'[line_item_id]]]
    /\ UNCHANGED <<now, fs, orders, pc, run, started, row, norm>>

CsvHeader == <<"Description", "Quantity", "Unit Price", "Total Price", "Catalog Match">>

\* main.py:364: the Catalog Match cell
CatalogMatchCell(item) ==
    IF item.catalog_match_data.t = "dict"
    THEN Get(item.catalog_match_data.v, "name", PyStr("")).v
    ELSE "No match"

\* main.py:349-365: header, then one row per line item of the order
CsvRows(items, order_id) ==
    LET mine == LineItemsOf(items, order_id)
    IN  <<CsvHeader>> \o
        [k \in 1..Len(mine) |->
            <<mine[k].item.description, mine[k].item.quantity, mine[k].item.unit_price,
              mine[k].item.total_price, CatalogMatchCell(mine[k].item)>>]

\* the export that writes every line item of the table
ExportAllRows(order_id) ==
    /\ IF ~OrderExists(orders, order_id)
       THEN /\ resp' = [op |-> "export", code |-> 404]
            /\ UNCHANGED orders
       ELSE /\ resp' = [op |-> "export", code |-> 200, order_id |-> order_id,
                        rows |-> <<CsvHeader>> \o
                            [k \in 1..Len(lineItems) |->
                                <<lineItems[k].description, lineItems[k].quantity,
                                  lineItems[k].unit_price, lineItems[k].total_price,
                                  CatalogMatchCell(lineItems[k])>>]]
            /\ orders' = [orders EXCEPT ![order_id].status = "exported"]
    /\ UNCHANGED <<now, fs, lineItems, pc, run, started, row, norm>>

\* main.py:335-379
ExportOrder(order_id) ==
    /\ IF ~OrderExists(orders, order_id)
       THEN /\ resp' = [op |-> "export", code |-> 404]
            /\ UNCHANGED orders
       ELSE /\ resp' = [op |-> "export", code |-> 200, order_id |-> order_id,
                        rows |-> CsvRows(lineItems, order_id)]
            /\ orders' = [orders EXCEPT ![order_id].status = "exported"]
    /\ UNCHANGED <<now, fs, lineItems, pc, run, started, row, norm>>

(***************************************************************************)
(* The service: uploads in flight in every slot, the clock, and the        *)
(* endpoints a client may call while an upload is in flight.               *)
(***************************************************************************)
OrderIds == 1..(Len(orders) + 1)
LineItemIds == 1..(Len(lineItems) + 1)

\* the model accepts a bounded number of PDF uploads
MayStart(filename, limit) == EndsWithPdf(filename) => started < limit

\* a new request takes the first free slot
FirstIdle(s) == pc[s] = "idle" /\ \A t \in Slots : pc[t] = "idle" => s <= t

Next ==
    \/ Tick
    \/ \E s \in Slots, filename \in UploadNames :
          FirstIdle(s) /\ MayStart(filename, MaxUploads) /\ UploadBegin(s, filename)
    \/ \E s \in Slots, u \in BOOLEAN : UploadStored(s, u)
    \/ \E s \in Slots, c \in ExtractionStatuses, b \in ExtractionBodies, u \in BOOLEAN :
          ExtractionResponse(s, c, b, u)
    \/ \E s \in Slots, c \in MatchingStatuses, b \in MatchingBodies,
          f \in CatalogFiles, u \in BOOLEAN :
          MatchingResponse(s, c, b, f, u)
    \/ \E o \in OrderIds : ExportOrder(o)

Spec == Init /\ [][Next]_vars

(***************************************************************************)
(* Review: uploads one at a time, answered by both collaborators, and a    *)
(* reviewer calling every order endpoint on the orders they leave.         *)
(***************************************************************************)
\* uploads accepted in a review session
MaxReviewed == 2

ReviewNames == {"order.pdf", "quote.pdf", "notes.txt"}
ReviewExtractionBodies == { <<RowNoDesc, RowBolt>> }
ReviewMatchingBodies ==
    { ("results" :> ("Bolt M6" :> <<CandCap, CandHex>>)),
      ("results" :> ("Bolt M6" :> <<>>)) }

NextReview ==
    \/ \E filename \in ReviewNames :
          MayStart(filename, MaxReviewed) /\ UploadBegin(1, filename)
    \/ UploadStored(1, FALSE)
    \/ \E b \in ReviewExtractionBodies : ExtractionResponse(1, 200, b, FALSE)
    \/ \E c \in MatchingStatuses, b \in ReviewMatchingBodies :
          MatchingResponse(1, c, b, CatalogWithCap, FALSE)
    \/ \E o \in OrderIds : GetOrder(o)
    \/ \E o \in OrderIds, l \in LineItemIds, c \in CatalogItemIds : UpdateMatch(o, l, c)
    \/ \E o \in OrderIds, l \in LineItemIds, b \in LineItemBodies : UpdateLineItem(o, l, b)
    \/ \E o \in OrderIds : ExportOrder(o)

SpecReview == Init /\ [][NextReview]_vars

(***************************************************************************)
(* Normalizer harness: any row over a few field names and values, then     *)
(* transform_extracted_item applied to it.                                 *)
(***************************************************************************)
\* a field name left out of a row
Absent == [t |-> "absent", v |-> 0]

DescriptionValues == {Absent, PyStr("Bolt M6")}
QuantityValues == {Absent, None, PyInt(3), PyStr("5"), PyStr("5.0"), PyStr("five"),
                   PyFloat(570), PyInf}
PriceValues == {Absent, None, PyStr("0.20"), PyStr("n/a"), PyInt(3)}
TotalValues == {Absent, PyStr("1.50"), PyStr("n/a")}

\* the row holding the given values under the given names, Absent ones left out
RowOf(named) ==
    LET present == {k \in DOMAIN named : named[k] # Absent}
    IN  [k \in present |-> named[k]]

NormRows ==
    { RowOf(("Item Description" :> d1) @@ ("Description" :> d2) @@ ("Qty" :> q)
            @@ ("Price/Unit" :> p) @@ ("Total" :> t)) :
        d1 \in {Absent, PyStr("Hex Bolt")}, d2 \in DescriptionValues,
        q \in QuantityValues, p \in PriceValues, t \in TotalValues }

InitNorm ==
    /\ now = 0
    /\ fs = {}
    /\ orders = <<>>
    /\ lineItems = <<>>
    /\ pc = [s \in Slots |-> "idle"]
    /\ run = [s \in Slots |-> NoRun]
    /\ started = 0
    /\ resp = NoResp
    /\ row \in NormRows
    /\ norm = NotRun

Normalize ==
    /\ norm = NotRun
    /\ norm' = transform_extracted_item(row)
    /\ UNCHANGED <<now, fs, orders, lineItems, pc, run, started, resp, row>>

NextNorm == Normalize

SpecNorm == InitNorm /\ [][NextNorm]_vars

(***************************************************************************)
(* Properties of the normalizer (SpecNorm).                                *)
(***************************************************************************)
\* the row holds at least one alias of the canonical field
HasAlias(item, column_type) ==
    \E i \in 1..Len(COLUMN_MAPPINGS[column_type]) :
        COLUMN_MAPPINGS[column_type][i] \in DOMAIN item

UploadEnded == resp.op = "upload" /\ resp.filename # NoFile

\* the failures upload_pdf's own body raises
UploadFailures ==
    {"PDF extraction failed", "No valid items could be extracted from the PDF",
     "Batch matching failed", "IntegrityError", "FileNotFoundError", "OverflowError"}

\* C2 as claimed: when an upload that stored its file ends, the stored file
\* no longer exists, whatever the outcome.
C2_StoredFileGone == UploadEnded => resp.filename \notin fs

\* C2 as the code has it: when an upload that stored its file ends, the
\* stored file no longer exists unless os.unlink itself raised, and what the
\* caller gets is the request's own outcome, never the deletion's failure.
C2_StoredFileGoneUnlessUnlinkRaised ==
    UploadEnded =>
        /\ resp.filename \in fs => resp.unlink_raised
        /\ \/ resp.code = 200 /\ resp.detail = "ok"
           \/ resp.code # 200 /\ resp.detail \in UploadFailures

\* a failed upload has ended and its stored file is gone
C2_Witness ==
    /\ UploadEnded
    /\ resp.code # 200
    /\ ~resp.unlink_raised
    /\ resp.filename \notin fs

\* the order table's row written by the upload in slot s
OwnOrder(table, s) ==
    /\ OrderExists(table, run[s].order_id)
    /\ table[run[s].order_id].filename = run[s].unique_filename

\* C3 as claimed: an upload that ends with invalid file type, extraction
\* failure, no valid items or matching failure has left no order behind.
C3_NoOrderAfterFailure ==
    (resp.op = "upload" /\ resp.code # 200
        /\ resp.detail \in {"Only PDF files are allowed", "PDF extraction failed",
                            "No valid items could be extracted from the PDF",
                            "Batch matching failed"})
    => ~FilenameTaken(orders, resp.filename)

\* C3 as the code has it: every step of an upload leaves both tables as they
\* were, except the step that creates its order (pending, before matching)
\* and the step that adds its line items; an upload that fails on file type,
\* extraction or no valid items never took either, and one that fails on
\* matching leaves the order it created in the table, with no line items.
C3_FailureKeepsTablesButMatchingKeepsOrder ==
    [][ /\ (resp'.op = "upload" /\ resp'.filename = NoFile)
              => (orders' = orders /\ lineItems' = lineItems)
        /\ \A s \in Slots :
              (pc[s] # "idle" /\ pc'[s] = "idle" /\ resp'.code # 200) =>
                  /\ orders' = orders
                  /\ lineItems' = lineItems
                  /\ resp'.detail \in {"PDF extraction failed",
                                       "No valid items could be extracted from the PDF"}
                         => pc[s] = "extracting"
                  /\ resp'.detail = "Batch matching failed" =>
                         /\ pc[s] = "matching"
                         /\ OwnOrder(orders', s)
                         /\ LineItemIdsOf(lineItems', run[s].order_id) = {}
        /\ \A s \in Slots :
              (pc[s] \in {"idle", "writing"} /\ pc'[s] # pc[s])
                  => (orders' = orders /\ lineItems' = lineItems)
        /\ \A s \in Slots :
              (pc[s] = "extracting" /\ pc'[s] = "matching") =>
                  /\ orders' = Append(orders, SalesOrder(run[s].unique_filename,
                                                         run[s].original_filename, "pending"))
                  /\ lineItems' = lineItems
      ]_vars

\* an upload has failed on matching and its order is in the table
C3_Witness ==
    /\ UploadEnded
    /\ resp.detail = "Batch matching failed"
    /\ FilenameTaken(orders, resp.filename)

\* the candidate field, or the default when the candidate lacks it
Field(candidate, name, default) ==
    IF name \in DOMAIN candidate THEN candidate[name] ELSE default

\* the batch response's entry for a description; none when the response has no
\* results or no such key
Entry(batch_matches, description) ==
    IF "results" \in DOMAIN batch_matches
          /\ description.v \in DOMAIN batch_matches["results"]
    THEN batch_matches["results"][description.v]
    ELSE <<>>

\* C4: when the matching service answers 200, the line item persisted for
\* the i-th surviving row has the first candidate's match and score when the
\* response's entry for the row's description is a non-empty list, and no
\* match and confidence 0 when it is empty or absent.
C4_FirstCandidateOrNone ==
    [][ resp'.op = "upload" =>
          \A s \in Slots, b \in MatchingBodies, f \in CatalogFiles, u \in BOOLEAN :
            MatchingResponse(s, 200, b, f, u) =>
                /\ resp'.code = 200
                /\ Len(lineItems') = Len(lineItems) + Len(run[s].transformed_items)
                /\ \A i \in 1..Len(run[s].transformed_items) :
                      LET item == run[s].transformed_items[i]
                          li == lineItems'[Len(lineItems) + i]
                          entry == Entry(b, item.description)
                      IN  /\ li.description = item.description
                          /\ li.sales_order_id = run[s].order_id
                          /\ IF entry # <<>>
                             THEN /\ li.catalog_match_id = Field(entry[1], "match", None)
                                  /\ li.confidence_score = entry[1]["score"].v
                             ELSE /\ li.catalog_match_id = None
                                  /\ li.confidence_score = 0
      ]_vars

\* an upload has succeeded; one of its line items took the first of two
\* candidates and another, whose entry is empty, has no match
C4_Witness ==
    /\ UploadEnded
    /\ resp.code = 200
    /\ \E i, j \in LineItemIdsOf(lineItems, resp.id) :
          /\ lineItems[i].catalog_match_id = PyStr("Cap Bolt M6")
          /\ lineItems[i].confidence_score = 50
          /\ lineItems[j].catalog_match_id = None
          /\ lineItems[j].confidence_score = 0

\* C9 as claimed: uploads of the same PDF get stored names distinct from
\* each other's and from every existing order's, also when they run at once
\* or within the same second, and do not disturb each other: a stored
\* file stays in place while its upload uses it, and no upload fails on
\* another's name or on its own file having been removed.
C9_UploadsIndependent ==
    /\ \A s \in Slots, t \in Slots :
          (s # t /\ pc[s] # "idle" /\ pc[t] # "idle")
              => run[s].unique_filename # run[t].unique_filename
    /\ \A s \in Slots :
          pc[s] = "extracting" => ~FilenameTaken(orders, run[s].unique_filename)
    /\ \A s \in Slots :
          pc[s] \in {"extracting", "matching"} => run[s].unique_filename \in fs
    /\ resp.op = "upload" => resp.detail \notin {"IntegrityError", "FileNotFoundError"}

\* C10 as claimed: when the matching service answers with a failure, the
\* upload fails and its order is in the table, pending and without line items.
C10_FailedMatchingLeavesPendingOrder ==
    (UploadEnded /\ resp.detail = "Batch matching failed") =>
        /\ resp.code \in MatchingStatuses \ {200}
        /\ \E o \in 1..Len(orders) :
              LET got == get_order(orders, lineItems, o)
              IN  /\ got.order.filename = resp.filename
                  /\ got.order.status = "pending"
                  /\ got.line_items = <<>>

\* C10 as the code has it: the order is created pending; while its upload
\* waits for the matching service only an export of that order changes it;
\* and when the matching service answers with a failure, the upload fails
\* with that status and get_order returns the order as it stood, without
\* line items. So the order is pending unless it was exported meanwhile.
C10_FailedMatchingLeavesOrder ==
    [][ /\ \A s \in Slots :
              (pc[s] = "extracting" /\ pc'[s] = "matching") =>
                  /\ OrderExists(orders', run'[s].order_id)
                  /\ orders'[run'[s].order_id].filename = run'[s].unique_filename
                  /\ orders'[run'[s].order_id].status = "pending"
        /\ \A s \in Slots :
              (pc[s] = "matching" /\ orders'[run[s].order_id] # orders[run[s].order_id]) =>
                  /\ resp'.op = "export"
                  /\ resp'.code = 200
                  /\ resp'.order_id = run[s].order_id
                  /\ orders'[run[s].order_id] =
                         [orders[run[s].order_id] EXCEPT !.status = "exported"]
        /\ resp'.op = "upload" =>
            \A s \in Slots, c \in MatchingStatuses \ {200}, b \in MatchingBodies,
               f \in CatalogFiles, u \in BOOLEAN :
              MatchingResponse(s, c, b, f, u) =>
                  LET got == get_order(orders', lineItems', run[s].order_id)
                  IN  /\ resp'.op = "upload"
                      /\ resp'.code = c
                      /\ got.code = 200
                      /\ got.order = orders[run[s].order_id]
                      /\ got.order.filename = run[s].unique_filename
                      /\ got.line_items = <<>>
      ]_vars

\* an upload has failed on matching with the upstream status and its order
\* is in the table, still pending and without line items
C10_Witness ==
    /\ UploadEnded
    /\ resp.detail = "Batch matching failed"
    /\ resp.code = 503
    /\ \E o \in 1..Len(orders) :
          /\ orders[o].filename = resp.filename
          /\ orders[o].status = "pending"
          /\ LineItemIdsOf(lineItems, o) = {}

\* the rows of an extraction response that normalize, normalized, in order
RECURSIVE Normalized(_)
Normalized(extracted_items) ==
    IF extracted_items = <<>> THEN <<>>
    ELSE LET t == transform_extracted_item(Head(extracted_items))
         IN  (IF t.exc = "none" THEN <<t.item>> ELSE <<>>)
                 \o Normalized(Tail(extracted_items))

\* C11 as claimed: an extraction response in which at least one row
\* normalizes never aborts the upload because of its other rows (they are
\* dropped and the rows that normalize go on to matching, in extraction
\* order), and when matching then answers 200 the upload succeeds and adds
\* exactly one line item per such row, in that order, pending and under the
\* new order, whether or not the catalog file could be read.
C11_BadRowsDroppedOneLineItemPerRow ==
    [][ /\ resp'.op \in {"none", "upload"} =>
            \A s \in Slots, b \in ExtractionBodies, u \in BOOLEAN :
              ( /\ ExtractionResponse(s, 200, b, u)
                /\ Normalized(b) # <<>>
                /\ ~FilenameTaken(orders, run[s].unique_filename) ) =>
                  /\ pc'[s] = "matching"
                  /\ run'[s].transformed_items = Normalized(b)
                  /\ orders'[run'[s].order_id].filename = run[s].unique_filename
        /\ resp'.op = "upload" =>
            \A s \in Slots, b \in MatchingBodies, f \in CatalogFiles, u \in BOOLEAN :
              MatchingResponse(s, 200, b, f, u) =>
                  LET items == run[s].transformed_items
                  IN  /\ resp'.code = 200
                      /\ resp'.id = run[s].order_id
                      /\ Len(lineItems') = Len(lineItems) + Len(items)
                      /\ SubSeq(lineItems', 1, Len(lineItems)) = lineItems
                      /\ \A i \in 1..Len(items) :
                            LET li == lineItems'[Len(lineItems) + i]
                            IN  /\ li.status = "pending"
                                /\ li.sales_order_id = run[s].order_id
                                /\ li.description = items[i].description
                                /\ li.quantity = items[i].quantity
                                /\ li.unit_price = items[i].unit_price
                                /\ li.total_price = items[i].total_price
      ]_vars


(***************************************************************************)
(* Properties of the order endpoints (SpecReview).                         *)
(***************************************************************************)
\* C5 as claimed: in an export, a line item's Catalog Match cell is
\* "No match" exactly when the line item has no catalog match, also for a
\* line item ingested without a match and given one by update_match.
C5_ExportShowsCurrentMatch ==
    (resp.op = "export" /\ resp.code = 200) =>
        LET mine == LineItemsOf(lineItems, resp.order_id)
        IN  \A k \in 1..Len(mine) :
                LET cell == resp.rows[k + 1][5]
                    match == mine[k].item.catalog_match_id
                IN  (cell = "No match") <=> (match = None)

\* C6: export of an existing order with N line items returns N + 1 rows, the
\* header and then the order's own line items in id order, and leaves the
\* order exported; export of a missing order returns 404 and changes no
\* order.
C6_ExportRowsAndStatus ==
    [][ resp'.op = "export" =>
          \A o \in OrderIds :
            ExportOrder(o) =>
                IF o \in 1..Len(orders)
                THEN LET ids == LineItemIdsOf(lineItems, o)
                     IN  /\ resp'.code = 200
                         /\ Len(resp'.rows) = Cardinality(ids) + 1
                         /\ resp'.rows[1] = CsvHeader
                         /\ \A k \in 2..Len(resp'.rows) :
                               \E i \in ids :
                                   /\ Cardinality({j \in ids : j < i}) = k - 2
                                   /\ resp'.rows[k][1] = lineItems[i].description
                                   /\ resp'.rows[k][2] = lineItems[i].quantity
                                   /\ resp'.rows[k][3] = lineItems[i].unit_price
                                   /\ resp'.rows[k][4] = lineItems[i].total_price
                         /\ orders'[o].status = "exported"
                ELSE /\ resp'.code = 404
                     /\ orders' = orders
      ]_vars

\* an order with one line item has been exported as two rows while the
\* table holds another order's line item too
C6_Witness ==
    /\ resp.op = "export"
    /\ resp.code = 200
    /\ Len(resp.rows) = 2
    /\ Len(lineItems) = 2
    /\ orders[resp.order_id].status = "exported"

\* C7: update_match succeeds exactly when the line item exists and belongs to
\* the order, and then sets its match id and marks it verified, leaving every
\* other line item and every order alone; otherwise it returns 404 and
\* changes nothing.
C7_UpdateMatchOnlyOwnLineItem ==
    [][ resp'.op = "update_match" =>
          \A o \in OrderIds, l \in LineItemIds, c \in CatalogItemIds :
            UpdateMatch(o, l, c) =>
                IF l \in 1..Len(lineItems) /\ lineItems[l].sales_order_id = o
                THEN /\ resp'.code = 200
                     /\ lineItems'[l].catalog_match_id = PyStr(c)
                     /\ lineItems'[l].status = "verified"
                     /\ Len(lineItems') = Len(lineItems)
                     /\ \A j \in 1..Len(lineItems) : j # l => lineItems'[j] = lineItems[j]
                     /\ orders' = orders
                ELSE /\ resp'.code = 404
                     /\ lineItems' = lineItems
                     /\ orders' = orders
      ]_vars

\* a line item has been matched by hand while a second order exists
C7_Witness ==
    /\ resp.op = "update_match"
    /\ resp.code = 200
    /\ Len(orders) = 2
    /\ \E l \in 1..Len(lineItems) :
          /\ lineItems[l].catalog_match_id = PyStr("Hex_Bolt_M6")
          /\ lineItems[l].status = "verified"

\* C8: after a successful update_line_item, get_order returns the line item
\* with the four supplied fields, its match, confidence, status and parent
\* as before, and every other line item and order unchanged; if the line
\* item is not of that order it returns 404 and changes nothing.
C8_UpdateLineItemRoundTrip ==
    [][ resp'.op = "update_line_item" =>
          \A o \in OrderIds, l \in LineItemIds, b \in LineItemBodies :
            UpdateLineItem(o, l, b) =>
                IF l \in 1..Len(lineItems) /\ lineItems[l].sales_order_id = o
                THEN LET got == get_order(orders', lineItems', o)
                     IN  /\ resp'.code = 200
                         /\ got.code = 200
                         /\ \E k \in 1..Len(got.line_items) :
                               LET li == got.line_items[k].item
                               IN  /\ got.line_items[k].id = l
                                   /\ li.description = PyStr(b.description)
                                   /\ li.quantity = b.quantity
                                   /\ li.unit_price = b.unit_price
                                   /\ li.total_price = b.total_price
                                   /\ li.catalog_match_id = lineItems[l].catalog_match_id
                                   /\ li.catalog_match_data = lineItems[l].catalog_match_data
                                   /\ li.confidence_score = lineItems[l].confidence_score
                                   /\ li.status = lineItems[l].status
                                   /\ li.sales_order_id = o
                         /\ Len(lineItems') = Len(lineItems)
                         /\ \A j \in 1..Len(lineItems) : j # l => lineItems'[j] = lineItems[j]
                         /\ orders' = orders
                ELSE /\ resp'.code = 404
                     /\ lineItems' = lineItems
                     /\ orders' = orders
      ]_vars

\* a matched line item has been rewritten and kept its match
C8_Witness ==
    /\ resp.op = "update_line_item"
    /\ resp.code = 200
    /\ resp.line_item.item.description = PyStr("Bolt M8")
    /\ resp.line_item.item.total_price = 210
    /\ resp.line_item.item.catalog_match_id = PyStr("Cap Bolt M6")
    /\ resp.line_item.item.confidence_score = 50

====
